---- MODULE Spec2Model ----
(***************************************************************************)
(* Resilience layer of the card-scanning service                           *)
(* (api/app/services/resilience_service.py): the CircuitBreaker state      *)
(* machine, and ResilienceService.execute_with_resilience with its retry   *)
(* loop and fallback.  Several calls run as asyncio tasks; a task is       *)
(* suspended only at an await (the operation, the backoff sleep, the       *)
(* fallback handler), so every action below is the code between two        *)
(* awaits of one task.  The tasks are anonymous: the calls in progress and *)
(* those that ended are kept as a bag of call records.                     *)
(***************************************************************************)
EXTENDS Integers, FiniteSets, Sequences, Bags, TLC

\* ---------------------------------------------------------------- bounds
NumTasks     == 2   \* concurrent execute_with_resilience calls
MaxTime      == 3   \* the clock runs 0..MaxTime
MaxThreshold == 2   \* failure_threshold is drawn from 1..MaxThreshold
MaxTimeout   == 1   \* recovery_timeout, in ticks of the clock
MaxAttempts  == 2   \* max_attempts is drawn from 1..MaxAttempts
MaxDelay     == 4   \* max_delay is at most MaxDelay seconds
MaxFactor    == 3   \* backoff_factor is drawn from 1..MaxFactor
FloatMax     == 8   \* the largest finite float, on the scale of the model
MaxBase      == 2   \* base_delay is drawn from 0..MaxBase
MaxBackoffAttempts == 4   \* max_attempts where the delays are examined
CountSlack   == 1   \* failure_count and success_count stay within
                    \* failure_threshold + CountSlack

\* Dependency names used by the callers: one with the retry policy and the
\* fallback handler registered by setup_default_resilience, one without.
Names == {"ml_service", "card_detection"}

\* self.fallback_handlers after setup_default_resilience, restricted to Names.
fallback_handlers == {"ml_service"}

\* The value of last_failure_time before any failure (Python's None).
None == -1

VARIABLES
    now,               \* datetime.utcnow(), in seconds
    circuit_breakers,  \* ResilienceService.circuit_breakers: name -> CircuitBreaker
    cb_config,         \* the CircuitBreakerConfig breakers are created with
    retry_config,      \* the RetryConfig of the names: max_attempts
    calls,             \* the bag of execute_with_resilience calls, one per task
    names,             \* the dependency names the callers pass
    probe,             \* history: per name, the on_success calls in a row
                       \* since the breaker entered HALF_OPEN
    ledger,            \* history: per name, the outcomes recorded in a row
    scan,              \* the scan request scan_endpoint is serving
    scan_history,      \* entries of ScanLogger's history file
    scan_analytics,    \* committed rows of the ScanAnalytics table
    offline_queue,     \* the offline queue: deferred actions, oldest first
    drain,             \* the Drain in progress, if any
    queue_history      \* history: ids given, failed replays, dropped actions

\* The variables of the resilience layer, and those of the scan route.
res_vars == <<now, circuit_breakers, cb_config, retry_config, calls, names,
              probe, ledger>>

scan_vars == <<scan, scan_history, scan_analytics>>

queue_vars == <<offline_queue, drain, queue_history>>

vars == <<now, circuit_breakers, cb_config, retry_config, calls, names, probe,
          ledger, scan, scan_history, scan_analytics,
          offline_queue, drain, queue_history>>

\* ------------------------------------------------------- CircuitBreaker
CircuitBreaker(cfg) ==
    [ config            |-> cfg,
      state             |-> "closed",
      failure_count     |-> 0,
      last_failure_time |-> None,
      success_count     |-> 0 ]

\* The result of can_execute at time t: the value returned and the breaker
\* as the call leaves it.
can_execute_without_probe(cb, t) ==
    IF cb.state = "closed" THEN [ret |-> TRUE, cb |-> cb]
    ELSE IF cb.state = "open" THEN [ret |-> FALSE, cb |-> cb]
    ELSE IF cb.state = "half_open" THEN [ret |-> TRUE, cb |-> cb]
    ELSE [ret |-> FALSE, cb |-> cb]

can_execute_strict(cb, t) ==
    IF cb.state = "closed" THEN [ret |-> TRUE, cb |-> cb]
    ELSE IF cb.state = "open" THEN
        IF cb.last_failure_time # None
           /\ t - cb.last_failure_time >= cb.config.recovery_timeout
        THEN [ret |-> TRUE, cb |-> [cb EXCEPT !.state = "half_open"]]
        ELSE [ret |-> FALSE, cb |-> cb]
    ELSE IF cb.state = "half_open" THEN [ret |-> TRUE, cb |-> cb]
    ELSE [ret |-> FALSE, cb |-> cb]

can_execute(cb, t) ==
    IF cb.state = "closed" THEN [ret |-> TRUE, cb |-> cb]
    ELSE IF cb.state = "open" THEN
        IF cb.last_failure_time # None
           /\ t - cb.last_failure_time > cb.config.recovery_timeout
        THEN [ret |-> TRUE, cb |-> [cb EXCEPT !.state = "half_open"]]
        ELSE [ret |-> FALSE, cb |-> cb]
    ELSE IF cb.state = "half_open" THEN [ret |-> TRUE, cb |-> cb]
    ELSE [ret |-> FALSE, cb |-> cb]

\* get_status(): the dict literal reads state and the counters first and
\* evaluates can_execute() last; the breaker can_execute leaves behind is the
\* breaker after the report.
get_status(cb, t) ==
    LET r == can_execute(cb, t)
    IN  [report |-> [state             |-> cb.state,
                     failure_count     |-> cb.failure_count,
                     success_count     |-> cb.success_count,
                     last_failure_time |-> cb.last_failure_time,
                     can_execute       |-> r.ret],
         cb |-> r.cb]

on_success_keep_count(cb) ==
    LET c1 == [cb EXCEPT !.failure_count = 0, !.success_count = @ + 1]
    IN  IF c1.state = "half_open" /\ c1.success_count >= c1.config.failure_threshold
        THEN [c1 EXCEPT !.state = "closed"]
        ELSE c1

on_success(cb) ==
    LET c1 == [cb EXCEPT !.failure_count = 0, !.success_count = @ + 1]
    IN  IF c1.state = "half_open" /\ c1.success_count >= c1.config.failure_threshold
        THEN [c1 EXCEPT !.state = "closed", !.success_count = 0]
        ELSE c1

on_failure_keep_successes(cb, t) ==
    LET c1 == [cb EXCEPT !.failure_count = @ + 1, !.last_failure_time = t]
    IN  IF c1.failure_count >= c1.config.failure_threshold
        THEN [c1 EXCEPT !.state = "open"]
        ELSE c1

on_failure_late(cb, t) ==
    LET c1 == [cb EXCEPT !.failure_count = @ + 1,
                         !.last_failure_time = t,
                         !.success_count = 0]
    IN  IF c1.failure_count > c1.config.failure_threshold
        THEN [c1 EXCEPT !.state = "open"]
        ELSE c1

on_failure(cb, t) ==
    LET c1 == [cb EXCEPT !.failure_count = @ + 1,
                         !.last_failure_time = t,
                         !.success_count = 0]
    IN  IF c1.failure_count >= c1.config.failure_threshold
        THEN [c1 EXCEPT !.state = "open"]
        ELSE c1

\* ----------------------------------------------------- ResilienceService
get_or_create_replacing(cbs, name, cfg) ==
    [n \in DOMAIN cbs \cup {name} |->
        IF n = name THEN CircuitBreaker(cfg) ELSE cbs[n]]

\* self.circuit_breakers after get_or_create_circuit_breaker(name, cfg).
get_or_create_circuit_breaker(cbs, name, cfg) ==
    IF name \notin DOMAIN cbs
    THEN [n \in DOMAIN cbs \cup {name} |->
            IF n = name THEN CircuitBreaker(cfg) ELSE cbs[n]]
    ELSE cbs

\* sub in name.lower(), for the dependency names of the model.
Contains(sub, name) ==
    \/ sub = "ml" /\ name \in {"ml_service"}
    \/ sub = "database" /\ name \in {"database"}
    \/ sub = "cache" /\ name \in {"cache"}

\* The default record of a dependency; 0.0 is written 0.
_get_default_fallback(name) ==
    IF Contains("ml", name)
    THEN [name |-> "Unknown Card", confidence |-> 0,
          error |-> "ML service unavailable"]
    ELSE IF Contains("database", name)
    THEN [error |-> "Database service unavailable"]
    ELSE IF Contains("cache", name)
    THEN [error |-> "Cache service unavailable"]
    ELSE [error |-> "Service '" \o name \o "' unavailable"]

\* What the handler registered for ml_service returns.
ml_fallback ==
    [name |-> "Unknown Card", confidence |-> 0,
     error |-> "ML service unavailable - using fallback"]

\* Python's None, the value of a call that has not returned.
NoValue == [none |-> TRUE]

\* What the operation returns when it returns: a card, marked with the
\* attempt that produced it so that the value can be told from another's.
OperationResult(attempt) ==
    [name |-> "Card", confidence |-> 1, attempt |-> attempt]

\* RetryConfig(max_attempts, base_delay, max_delay, backoff_factor); times
\* are in seconds.
RetryConfig(max_attempts, base_delay, max_delay, backoff_factor) ==
    [max_attempts |-> max_attempts, base_delay |-> base_delay,
     max_delay |-> max_delay, backoff_factor |-> backoff_factor]

Min(a, b) == IF a < b THEN a ELSE b

RECURSIVE Power(_, _)
\* x to the k, exactly.
Power(x, k) == IF k = 0 THEN 1 ELSE x * Power(x, k - 1)

\* The delay expression of the retry loop.  backoff_factor ** attempt is a
\* float power, which raises OverflowError when the result is not a finite
\* float; a product that is too large is the float inf, and min() of it and
\* max_delay is max_delay.
delay(cfg, attempt) ==
    LET p == Power(cfg.backoff_factor, attempt)
    IN  IF p > FloatMax
        THEN [raises |-> TRUE, delay |-> 0]
        ELSE [raises |-> FALSE,
              delay |-> Min(cfg.base_delay * p, cfg.max_delay)]

\* A task that is in no call.  Of a call: pc is the await it is suspended at
\* (or how it ended), attempt the loop variable, and, as history, invoked
\* counts the invocations of the operation, slept the backoff sleeps, failed
\* the attempts that raised an exception of retry_config.exceptions, other
\* those that raised another exception, recorded the on_failure calls made,
\* succeeded the on_success calls made, delays the arguments of the sleeps.
Idle ==
    [ pc |-> "idle", name |-> "", attempt |-> 0,
      invoked |-> 0, slept |-> 0, failed |-> 0, other |-> 0,
      recorded |-> 0, succeeded |-> 0, delays |-> <<>>, result |-> NoValue ]

\* _execute_fallback up to its await: a registered handler is awaited, and
\* without one the default record is returned at once.
_execute_fallback(c) ==
    IF c.name \in fallback_handlers
    THEN [c EXCEPT !.pc = "fallback"]
    ELSE [c EXCEPT !.pc = "returned", !.result = _get_default_fallback(c.name)]

begin_counting_rejection(name, cb, t) ==
    LET chk == can_execute(cb, t)
        c   == [Idle EXCEPT !.name = name]
    IN  IF ~chk.ret
        THEN [cb |-> on_failure(chk.cb, t), call |-> _execute_fallback(c)]
        ELSE [cb |-> chk.cb,
              call |-> [c EXCEPT !.pc = "operation", !.invoked = 1]]

\* execute_with_resilience from its entry to the first await: the breaker is
\* asked, and the call either goes to the fallback or makes attempt 0.
begin(name, cb, t) ==
    LET chk == can_execute(cb, t)
        c   == [Idle EXCEPT !.name = name]
    IN  IF ~chk.ret
        THEN [cb |-> chk.cb, call |-> _execute_fallback(c)]
        ELSE [cb |-> chk.cb,
              call |-> [c EXCEPT !.pc = "operation", !.invoked = 1]]

after_success_retrying(c, cb) ==
    [cb |-> on_success(cb),
     call |-> [c EXCEPT !.pc = "sleep", !.succeeded = @ + 1, !.slept = @ + 1,
                        !.result = OperationResult(c.attempt)]]

\* The try body after the operation returned: on_success, return result.
after_success(c, cb) ==
    [cb |-> on_success(cb),
     call |-> [c EXCEPT !.pc = "returned", !.succeeded = @ + 1,
                        !.result = OperationResult(c.attempt)]]

\* The except clause after the test for the last attempt: the delay is
\* computed and slept; an error of the computation leaves the call.
backoff(c, cfg) ==
    LET d == delay(cfg, c.attempt)
    IN  IF d.raises
        THEN [c EXCEPT !.pc = "raised"]
        ELSE [c EXCEPT !.pc = "sleep", !.slept = @ + 1,
                       !.delays = Append(@, d.delay)]

after_failure_early(c, cb, t, cfg) ==
    LET c1 == [c EXCEPT !.failed = @ + 1, !.recorded = @ + 1]
    IN  IF c.attempt >= cfg.max_attempts - 2
        THEN [cb |-> on_failure(cb, t), call |-> _execute_fallback(c1)]
        ELSE [cb |-> on_failure(cb, t), call |-> backoff(c1, cfg)]

\* The except clause for an exception in retry_config.exceptions: on_failure,
\* then the fallback after the last attempt, and the backoff sleep otherwise.
after_failure(c, cb, t, cfg) ==
    LET c1 == [c EXCEPT !.failed = @ + 1, !.recorded = @ + 1]
    IN  IF c.attempt = cfg.max_attempts - 1
        THEN [cb |-> on_failure(cb, t), call |-> _execute_fallback(c1)]
        ELSE [cb |-> on_failure(cb, t), call |-> backoff(c1, cfg)]

after_other_exception_retried(c, cb) ==
    [cb |-> cb,
     call |-> [c EXCEPT !.pc = "sleep", !.other = @ + 1, !.slept = @ + 1]]

\* An exception outside retry_config.exceptions is caught by no clause of
\* the loop: it leaves execute_with_resilience.
after_other_exception(c, cb) ==
    [cb |-> cb, call |-> [c EXCEPT !.pc = "raised", !.other = @ + 1]]

\* asyncio.sleep returned: the loop makes the next attempt.
next_attempt(c) ==
    [c EXCEPT !.pc = "operation", !.attempt = @ + 1, !.invoked = @ + 1]

reset_keeping_state(cb) ==
    [cb EXCEPT !.failure_count = 0, !.success_count = 0,
               !.last_failure_time = None]

\* reset_circuit_breaker on an existing breaker.
reset(cb) ==
    [cb EXCEPT !.state = "closed", !.failure_count = 0,
               !.success_count = 0, !.last_failure_time = None]

after_reset_of_all(cbs, name) ==
    IF name \in DOMAIN cbs
    THEN [n \in DOMAIN cbs |-> reset(cbs[n])]
    ELSE cbs

\* self.circuit_breakers after reset_circuit_breaker(name): a name without
\* a breaker is left without one.
after_reset(cbs, name) ==
    IF name \in DOMAIN cbs
    THEN [cbs EXCEPT ![name] = reset(cbs[name])]
    ELSE cbs

\* probe[name] after a step that took the breaker from old to new; event is
\* "success" for on_success, "failure" for on_failure, "none" otherwise.
probe_after(old, new, h, event) ==
    IF new.state # "half_open" \/ old.state # "half_open" THEN 0
    ELSE IF event = "success" THEN h + 1
    ELSE IF event = "failure" THEN 0
    ELSE h

\* No outcome recorded yet.
NoOutcomes == [failures |-> 0, successes |-> 0]

\* ledger[name] after a step that took the breaker from old to new: failures
\* is the number of on_failure calls since the last on_success or reset,
\* successes the number of on_success calls since the last on_failure, the
\* last closing of the breaker or the last reset.
ledger_after(old, new, l, event) ==
    IF event = "failure" THEN [failures |-> l.failures + 1, successes |-> 0]
    ELSE IF event = "success" THEN
        [failures  |-> 0,
         successes |-> IF old.state = "half_open" /\ new.state = "closed"
                       THEN 0 ELSE l.successes + 1]
    ELSE l

\* The bag of calls after the task whose call is c took it to c2.
Replace(c, c2) == (calls (-) SetToBag({c})) (+) SetToBag({c2})

\* The cap that keeps the counters of a breaker finite.
MaxCount(cb) == cb.config.failure_threshold + CountSlack

\* ------------------------------------------------------------ scan route
\* api/app/routes/scan.py.  Confidences are in hundredths, file sizes in MiB.
MaxScans == 2   \* log entries written by the requests of one behaviour

allowed_types == {"image/jpeg", "image/png", "image/webp", "image/gif"}

max_file_size == 10

max_retries == 2

\* The inputs of a request: its content type, file.size (None when the
\* upload carries no size), the retry_count query parameter, and the
\* connection status that get_system_status reports.
ContentTypes == {"image/jpeg", "image/gif", "text/plain"}

Sizes == {None, 1, max_file_size, max_file_size + 1}

RetryCounts == 0..2

ConnectionStatus == {"online", "degraded", "offline"}

\* What the detector does inside detect_cards: it raises, or it finds
\* regions, each named by its confidence.
Detections == [raised : BOOLEAN, regions : SUBSET {50, 90}]

\* What the model does inside identify_card: it raises, or it predicts a
\* card with some confidence.
ModelOutcomes == [raised : BOOLEAN, confidence : {50, 70, 95}]

\* How ScanAnalyticsService.log_scan ends: the row is committed, or the
\* session raises.
LogOutcomes == {"ok", "analytics_raises"}

\* A key that a card_data dictionary does not have.
NoKey == "none"

RetryKeys == {"retry_count", "suggest_retry", "retry_delay_seconds"}

\* card_data, with keys the keys that are present among error_type and
\* RetryKeys.
CardData(name, confidence, mode) ==
    [ name |-> name, confidence |-> confidence, mode |-> mode,
      error_type |-> NoKey, retry_count |-> None, suggest_retry |-> FALSE,
      retry_delay_seconds |-> None, keys |-> {} ]

fallback_scan ==
    [ CardData("Unknown", 0, "offline") EXCEPT
        !.error_type = "offline_mode", !.retry_count = 0,
        !.suggest_retry = TRUE, !.retry_delay_seconds = 5,
        !.keys = RetryKeys \cup {"error_type"} ]

\* The except clause of scan_endpoint: the card returned after
\* perform_scan_with_retry raised.
ml_error_result(retry_count) ==
    LET error_type == "ml_error"
    IN  [ CardData("Unknown", 0, "online") EXCEPT
            !.error_type = error_type, !.retry_count = retry_count,
            !.suggest_retry = (retry_count < 2 /\ error_type # "offline_mode"),
            !.retry_delay_seconds = IF retry_count = 0 THEN 10 ELSE 20,
            !.keys = RetryKeys \cup {"error_type"} ]

validate_without_size(content_type, size) ==
    IF content_type \notin allowed_types THEN 400 ELSE 200

\* The two checks at the head of scan_endpoint: the HTTP status they raise,
\* or 200 when the request passes.
validate(content_type, size) ==
    IF content_type \notin allowed_types THEN 400
    ELSE IF size # None /\ size # 0 /\ size > max_file_size THEN 413
    ELSE 200

\* detect_cards: an exception of the detector is logged and [] returned.
detect_cards(d) == IF d.raised THEN {} ELSE d.regions

\* max(card_detections, key=lambda d: d.confidence)
best_detection(regions) == CHOOSE r \in regions : \A q \in regions : q <= r

\* identify_card: any exception inside is caught and an "Unknown" prediction
\* with confidence 0.0 is returned.
identify_card(m) ==
    IF m.raised THEN [name |-> "Unknown", confidence |-> 0]
    ELSE [name |-> "Pikachu", confidence |-> m.confidence]

\* perform_scan_with_retry after identify_card returned: card_data.
card_of(prediction) == CardData(prediction.name, prediction.confidence, "online")

user_guidance_confidence_first(card_data) ==
    IF card_data.confidence < 70 THEN "suggest_retry"
    ELSE IF card_data.error_type = "offline_mode" THEN "retry_when_online"
    ELSE IF card_data.error_type = "ml_error" THEN "retry_with_better_image"
    ELSE "add_to_collection"

\* The user_guidance that scan_endpoint adds to the response: its action.
user_guidance(card_data) ==
    IF card_data.error_type # NoKey
    THEN IF card_data.error_type = "offline_mode" THEN "retry_when_online"
         ELSE IF card_data.error_type = "ml_error" THEN "retry_with_better_image"
         ELSE NoKey
    ELSE IF card_data.confidence < 70 THEN "suggest_retry"
    ELSE "add_to_collection"

\* retry_with_backoff(max_retries=2, ...) around perform_scan_with_retry:
\* whether the attempt that just raised is followed by another one.
retry_with_backoff(attempt) == attempt < max_retries

\* No request is being served.  Of a request: pc is the stage it is at,
\* regions what detect_cards returned, image what is handed to identify_card
\* (the full image, or the crop of the region cropped), status the HTTP
\* status the validation gives, or 500 for an escaped exception, logs0
\* the two logs as the request found them, and, as history, detected and
\* identified count the calls of detect_cards and identify_card,
\* detector_failed, no_regions, crop_failed, model_failed and log_failed
\* tell what went wrong.
NoScan ==
    [ pc |-> "idle", content_type |-> "", size |-> None, retry_count |-> 0,
      connection_status |-> "online", attempt |-> 0,
      regions |-> {}, image |-> "none", cropped |-> None, card_data |-> CardData("", 0, ""),
      response |-> CardData("", 0, ""), user_guidance |-> NoKey, status |-> 0,
      logs0 |-> <<0, 0>>, detected |-> 0, identified |-> 0,
      detector_failed |-> FALSE, no_regions |-> FALSE, crop_failed |-> FALSE,
      model_failed |-> FALSE, log_failed |-> FALSE, stages |-> <<>> ]

\* ---------------------------------------------------------- offline queue
\* The queue of deferred actions that get_system_status reports the size of.
MaxActions == 3   \* actions enqueued in one behaviour

\* An action is dropped when its retry_count reaches this number.
queue_max_retries == 3

\* No Drain is in progress.  Of a Drain: pos is the index of the entry it
\* replays next, and tried the ids it has replayed so far.
NoDrain == [active |-> FALSE, pos |-> 1, tried |-> {}]

\* next_id is the id the next Enqueue assigns; failed counts the failed
\* replays of each action; dropped are the actions given up for good.
NoQueueHistory ==
    [next_id |-> 1, failed |-> [i \in 1..MaxActions |-> 0], dropped |-> {}]

\* Enqueue(action): the queue with the action appended.
Enqueue(q, id) == Append(q, [id |-> id, retry_count |-> 0])

\* q without its entry at index pos.
Without(q, pos) == [i \in 1..(Len(q) - 1) |-> IF i < pos THEN q[i] ELSE q[i + 1]]

\* Drain, after replay_fn succeeded on the entry at pos: it is removed.
after_replay_success(q, pos) == [queue |-> Without(q, pos), pos |-> pos]

after_replay_failure_requeued(q, pos) ==
    LET e == [q[pos] EXCEPT !.retry_count = @ + 1]
    IN  IF e.retry_count < queue_max_retries
        THEN [queue |-> Append(Without(q, pos), e), pos |-> pos, dropped |-> {}]
        ELSE [queue |-> Without(q, pos), pos |-> pos, dropped |-> {e.id}]

\* Drain, after replay_fn failed on the entry at pos: its retry_count is
\* incremented, and it stays where it is while that is below max_retries;
\* otherwise it is dropped.
after_replay_failure(q, pos) ==
    LET e == [q[pos] EXCEPT !.retry_count = @ + 1]
    IN  IF e.retry_count < queue_max_retries
        THEN [queue |-> [q EXCEPT ![pos] = e], pos |-> pos + 1, dropped |-> {}]
        ELSE [queue |-> Without(q, pos), pos |-> pos, dropped |-> {e.id}]

\* ---------------------------------------------------------------- Init
Init ==
    /\ now = 0
    /\ circuit_breakers = [n \in {} |-> CircuitBreaker(0)]
    /\ cb_config \in [failure_threshold : 1..MaxThreshold,
                      recovery_timeout  : {MaxTimeout}]
    /\ retry_config \in {RetryConfig(n, 1, MaxDelay, 2) : n \in 1..MaxAttempts}
    /\ calls = [c \in {Idle} |-> NumTasks]
    /\ names \in {{n} : n \in Names}
    /\ probe = [n \in Names |-> 0]
    /\ ledger = [n \in Names |-> NoOutcomes]
    /\ scan = NoScan
    /\ scan_history = 0
    /\ scan_analytics = 0
    /\ offline_queue = <<>>
    /\ drain = NoDrain
    /\ queue_history = NoQueueHistory

\* -------------------------------------------------------------- actions
\* A task calls execute_with_resilience(name, operation).
execute_with_resilience(c, name) ==
    /\ c.pc \in {"idle", "returned", "raised"}
    /\ LET cbs == get_or_create_circuit_breaker(circuit_breakers, name, cb_config)
           r   == begin(name, cbs[name], now)
       IN  /\ circuit_breakers' = [cbs EXCEPT ![name] = r.cb]
           /\ calls' = Replace(c, r.call)
           /\ probe' = [probe EXCEPT ![name] = probe_after(cbs[name], r.cb, @, "none")]
           /\ ledger' = [ledger EXCEPT ![name] = ledger_after(cbs[name], r.cb, @, "none")]
    /\ UNCHANGED <<now, cb_config, retry_config, names, scan_vars, queue_vars>>

\* The awaited operation returns a result.
operation_returns(c) ==
    /\ c.pc = "operation"
    /\ \/ circuit_breakers[c.name].state = "half_open"
       \/ circuit_breakers[c.name].success_count < MaxCount(circuit_breakers[c.name])
    /\ LET r == after_success(c, circuit_breakers[c.name])
       IN  /\ circuit_breakers' = [circuit_breakers EXCEPT ![c.name] = r.cb]
           /\ calls' = Replace(c, r.call)
           /\ probe' = [probe EXCEPT ![c.name] =
                  probe_after(circuit_breakers[c.name], r.cb, @, "success")]
           /\ ledger' = [ledger EXCEPT ![c.name] =
                  ledger_after(circuit_breakers[c.name], r.cb, @, "success")]
    /\ UNCHANGED <<now, cb_config, retry_config, names, scan_vars, queue_vars>>

\* The awaited operation raises an exception in retry_config.exceptions.
operation_raises(c) ==
    /\ c.pc = "operation"
    /\ circuit_breakers[c.name].failure_count < MaxCount(circuit_breakers[c.name])
    /\ LET r == after_failure(c, circuit_breakers[c.name], now, retry_config)
       IN  /\ circuit_breakers' = [circuit_breakers EXCEPT ![c.name] = r.cb]
           /\ calls' = Replace(c, r.call)
           /\ probe' = [probe EXCEPT ![c.name] =
                  probe_after(circuit_breakers[c.name], r.cb, @, "failure")]
           /\ ledger' = [ledger EXCEPT ![c.name] =
                  ledger_after(circuit_breakers[c.name], r.cb, @, "failure")]
    /\ UNCHANGED <<now, cb_config, retry_config, names, scan_vars, queue_vars>>

\* The awaited operation raises an exception outside retry_config.exceptions.
operation_raises_other(c) ==
    /\ c.pc = "operation"
    /\ LET r == after_other_exception(c, circuit_breakers[c.name])
       IN  /\ circuit_breakers' = [circuit_breakers EXCEPT ![c.name] = r.cb]
           /\ calls' = Replace(c, r.call)
           /\ probe' = [probe EXCEPT ![c.name] =
                  probe_after(circuit_breakers[c.name], r.cb, @, "none")]
           /\ ledger' = [ledger EXCEPT ![c.name] =
                  ledger_after(circuit_breakers[c.name], r.cb, @, "none")]
    /\ UNCHANGED <<now, cb_config, retry_config, names, scan_vars, queue_vars>>

\* The backoff sleep of a task ends.
sleep_returns(c) ==
    /\ c.pc = "sleep"
    /\ calls' = Replace(c, next_attempt(c))
    /\ UNCHANGED <<now, circuit_breakers, cb_config, retry_config, names, probe,
                   ledger, scan_vars, queue_vars>>

\* The awaited fallback handler returns its value.
fallback_returns(c) ==
    /\ c.pc = "fallback"
    /\ calls' = Replace(c, [c EXCEPT !.pc = "returned", !.result = ml_fallback])
    /\ UNCHANGED <<now, circuit_breakers, cb_config, retry_config, names, probe,
                   ledger, scan_vars, queue_vars>>

\* The awaited fallback handler raises: the default record is returned.
fallback_raises(c) ==
    /\ c.pc = "fallback"
    /\ calls' = Replace(c, [c EXCEPT !.pc = "returned",
                                       !.result = _get_default_fallback(c.name)])
    /\ UNCHANGED <<now, circuit_breakers, cb_config, retry_config, names, probe,
                   ledger, scan_vars, queue_vars>>

\* get_circuit_breaker_status(name): get_status evaluates can_execute.
get_circuit_breaker_status(name) ==
    /\ name \in DOMAIN circuit_breakers
    /\ circuit_breakers' = [circuit_breakers EXCEPT
            ![name] = get_status(circuit_breakers[name], now).cb]
    /\ probe' = [probe EXCEPT ![name] =
           probe_after(circuit_breakers[name], circuit_breakers'[name], @, "none")]
    /\ UNCHANGED ledger
    /\ UNCHANGED <<now, cb_config, retry_config, calls, names, scan_vars, queue_vars>>

\* reset_circuit_breaker(name).
reset_circuit_breaker(name) ==
    /\ circuit_breakers' = after_reset(circuit_breakers, name)
    /\ probe' = [probe EXCEPT ![name] = 0]
    /\ ledger' = [ledger EXCEPT ![name] = NoOutcomes]
    /\ UNCHANGED <<now, cb_config, retry_config, calls, names, scan_vars, queue_vars>>

\* Time passes.
tick ==
    /\ now < MaxTime
    /\ now' = now + 1
    /\ UNCHANGED <<circuit_breakers, cb_config, retry_config, calls, names, probe,
                   ledger, scan_vars, queue_vars>>

Next ==
    \/ \E c \in BagToSet(calls), name \in names : execute_with_resilience(c, name)
    \/ \E c \in BagToSet(calls) : operation_returns(c)
    \/ \E c \in BagToSet(calls) : operation_raises(c)
    \/ \E c \in BagToSet(calls) : operation_raises_other(c)
    \/ \E c \in BagToSet(calls) : sleep_returns(c)
    \/ \E c \in BagToSet(calls) : fallback_returns(c)
    \/ \E c \in BagToSet(calls) : fallback_raises(c)
    \/ \E name \in names : get_circuit_breaker_status(name)
    \/ \E name \in names : reset_circuit_breaker(name)
    \/ tick

Spec == Init /\ [][Next]_vars

\* ------------------------------------------------- several dependencies
\* The callers use every name of Names, so that the service holds several
\* breakers; there are as many tasks as names, and the configuration is the
\* smallest one that has a retry.
NamesInit ==
    /\ now = 0
    /\ circuit_breakers = [n \in {} |-> CircuitBreaker(0)]
    /\ cb_config = [failure_threshold |-> 1, recovery_timeout |-> MaxTimeout]
    /\ retry_config = RetryConfig(2, 1, MaxDelay, 2)
    /\ calls = [c \in {Idle} |-> Cardinality(Names)]
    /\ names = Names
    /\ probe = [n \in Names |-> 0]
    /\ ledger = [n \in Names |-> NoOutcomes]
    /\ scan = NoScan
    /\ scan_history = 0
    /\ scan_analytics = 0
    /\ offline_queue = <<>>
    /\ drain = NoDrain
    /\ queue_history = NoQueueHistory

SpecNames == NamesInit /\ [][Next]_vars

\* ------------------------------------------------------ retry policies
\* One task and one dependency under every retry policy of the bounds; the
\* breaker's threshold leaves room for a call whose attempts all fail.
BackoffInit ==
    /\ now = 0
    /\ circuit_breakers = [n \in {} |-> CircuitBreaker(0)]
    /\ cb_config = [failure_threshold |-> MaxBackoffAttempts,
                    recovery_timeout |-> MaxTimeout]
    /\ retry_config \in {RetryConfig(n, b, m, f) :
           n \in 1..MaxBackoffAttempts, b \in 0..MaxBase,
           m \in 0..MaxDelay, f \in 1..MaxFactor}
    /\ calls = [c \in {Idle} |-> 1]
    /\ names = {"ml_service"}
    /\ probe = [n \in Names |-> 0]
    /\ ledger = [n \in Names |-> NoOutcomes]
    /\ scan = NoScan
    /\ scan_history = 0
    /\ scan_analytics = 0
    /\ offline_queue = <<>>
    /\ drain = NoDrain
    /\ queue_history = NoQueueHistory

BackoffSpec == BackoffInit /\ [][Next]_vars

\* --------------------------------------------- recovery of a dependency
\* The bag of calls when k tasks are awaiting the operation in their first
\* attempt and the other tasks are between calls.
InFlight(name, k) ==
    IF k = 0 THEN [c \in {Idle} |-> NumTasks]
    ELSE [c \in {Idle} |-> NumTasks - k] (+)
         [c \in {[Idle EXCEPT !.pc = "operation", !.name = name, !.invoked = 1]}
             |-> k]

\* The breaker of a dependency has just been opened, at time 0, by
\* failure_threshold failures in a row; some calls admitted before are still
\* awaiting the operation.
LiveInit ==
    /\ now = 0
    /\ cb_config \in [failure_threshold : 1..MaxThreshold,
                      recovery_timeout  : {MaxTimeout}]
    /\ retry_config \in {RetryConfig(n, 1, MaxDelay, 2) : n \in 1..MaxAttempts}
    /\ names \in {{n} : n \in Names}
    /\ circuit_breakers \in
          { [n \in ns |-> [CircuitBreaker(cb_config) EXCEPT
                              !.state = "open",
                              !.failure_count = cb_config.failure_threshold,
                              !.last_failure_time = 0]] : ns \in {names} }
    /\ calls \in { InFlight(n, k) : n \in names, k \in 0..(NumTasks - 1) }
    /\ probe = [n \in Names |-> 0]
    /\ ledger = [n \in Names |->
                    IF n \in names
                    THEN [failures |-> cb_config.failure_threshold, successes |-> 0]
                    ELSE NoOutcomes]
    /\ scan = NoScan
    /\ scan_history = 0
    /\ scan_analytics = 0
    /\ offline_queue = <<>>
    /\ drain = NoDrain
    /\ queue_history = NoQueueHistory

\* From now on the operation succeeds whenever it is called, and nobody
\* resets the breaker.
LiveNext ==
    \/ \E c \in BagToSet(calls), name \in names : execute_with_resilience(c, name)
    \/ \E c \in BagToSet(calls) : operation_returns(c)
    \/ \E c \in BagToSet(calls) : fallback_returns(c)
    \/ \E c \in BagToSet(calls) : fallback_raises(c)
    \/ \E name \in names : get_circuit_breaker_status(name)
    \/ tick

\* Time keeps advancing, calls keep arriving, and an awaited operation or
\* fallback handler completes.
LiveSpec ==
    /\ LiveInit
    /\ [][LiveNext]_vars
    /\ WF_vars(tick)
    /\ WF_vars(\E c \in BagToSet(calls), name \in names : execute_with_resilience(c, name))
    /\ WF_vars(\E c \in BagToSet(calls) : operation_returns(c))
    /\ WF_vars(\E c \in BagToSet(calls) : fallback_returns(c) \/ fallback_raises(c))

\* The event loop runs every task that is ready: a backoff sleep ends and a
\* fallback handler completes, and time advances; whether the awaited
\* operation ever completes is up to the dependency.
HangSpec ==
    /\ Init
    /\ [][Next]_vars
    /\ WF_vars(tick)
    /\ WF_vars(\E c \in BagToSet(calls) : sleep_returns(c))
    /\ WF_vars(\E c \in BagToSet(calls) : fallback_returns(c) \/ fallback_raises(c))

\* ------------------------------------------------- scan route: the steps
\* The resilience layer as the scan route finds it: scan.py makes no call
\* of execute_with_resilience.
ScanInit ==
    /\ now = 0
    /\ circuit_breakers = [n \in {} |-> CircuitBreaker(0)]
    /\ cb_config = [failure_threshold |-> 1, recovery_timeout |-> MaxTimeout]
    /\ retry_config = RetryConfig(1, 1, MaxDelay, 2)
    /\ calls = [c \in {Idle} |-> NumTasks]
    /\ names = {"ml_service"}
    /\ probe = [n \in Names |-> 0]
    /\ ledger = [n \in Names |-> NoOutcomes]
    /\ scan = NoScan
    /\ scan_history = 0
    /\ scan_analytics = 0
    /\ offline_queue = <<>>
    /\ drain = NoDrain
    /\ queue_history = NoQueueHistory

scan_endpoint_offline_unlogged(content_type, size, retry_count, connection_status) ==
    /\ scan.pc \in {"idle", "responded", "rejected", "raised"}
    /\ scan_analytics < MaxScans
    /\ LET s == [NoScan EXCEPT !.content_type = content_type, !.size = size,
                               !.retry_count = retry_count,
                               !.connection_status = connection_status,
                               !.status = validate(content_type, size),
                               !.logs0 = <<scan_history, scan_analytics>>,
                               !.stages = <<"validate">>]
       IN  scan' = IF s.status # 200 THEN [s EXCEPT !.pc = "rejected"]
                   ELSE IF connection_status = "offline"
                   THEN [s EXCEPT !.pc = "responded", !.card_data = fallback_scan,
                                  !.response = fallback_scan,
                                  !.user_guidance = user_guidance(fallback_scan),
                                  !.stages = @ \o <<"fallback", "respond">>]
                   ELSE [s EXCEPT !.pc = "detecting"]
    /\ UNCHANGED <<res_vars, queue_vars, scan_history, scan_analytics>>

\* A request arrives at POST /scan: the system status is read, the upload is
\* validated, and the request is rejected, answered by fallback_scan when
\* the system is offline, or handed to perform_scan_with_retry.
scan_endpoint(content_type, size, retry_count, connection_status) ==
    /\ scan.pc \in {"idle", "responded", "rejected", "raised"}
    /\ scan_analytics < MaxScans
    /\ LET s == [NoScan EXCEPT !.content_type = content_type, !.size = size,
                               !.retry_count = retry_count,
                               !.connection_status = connection_status,
                               !.status = validate(content_type, size),
                               !.logs0 = <<scan_history, scan_analytics>>,
                               !.stages = <<"validate">>]
       IN  scan' = IF s.status # 200 THEN [s EXCEPT !.pc = "rejected"]
                   ELSE IF connection_status = "offline"
                   THEN [s EXCEPT !.pc = "logging", !.card_data = fallback_scan,
                                  !.stages = Append(@, "fallback")]
                   ELSE [s EXCEPT !.pc = "detecting"]
    /\ UNCHANGED <<res_vars, queue_vars, scan_history, scan_analytics>>

\* One attempt of perform_scan_with_retry up to its await of identify_card:
\* the file is read, detect_cards runs, and the best region is cropped.  An
\* exception of crop_card leaves the attempt; after the last attempt it
\* reaches the except clause of scan_endpoint.
perform_scan_with_retry(d, crop_ok) ==
    /\ scan.pc = "detecting"
    /\ LET regions == detect_cards(d)
           s0 == [scan EXCEPT !.detected = @ + 1, !.regions = regions,
                              !.detector_failed = @ \/ d.raised,
                              !.no_regions = @ \/ (~d.raised /\ regions = {})]
           s == [s0 EXCEPT !.stages = Append(@, "detect")]
       IN  scan' =
             IF regions = {}
             THEN [s EXCEPT !.pc = "identifying", !.image = "full"]
             ELSE IF crop_ok
             THEN [s EXCEPT !.pc = "identifying",
                            !.image = "crop", !.cropped = best_detection(regions)]
             ELSE IF retry_with_backoff(scan.attempt)
             THEN [s EXCEPT !.pc = "backoff", !.crop_failed = TRUE]
             ELSE [s EXCEPT !.pc = "logging", !.crop_failed = TRUE,
                            !.card_data = ml_error_result(scan.retry_count),
                            !.stages = Append(@, "fallback")]
    /\ UNCHANGED <<res_vars, queue_vars, scan_history, scan_analytics>>

\* The sleep of retry_with_backoff ends: the next attempt starts.
backoff_returns ==
    /\ scan.pc = "backoff"
    /\ scan' = [scan EXCEPT !.pc = "detecting", !.attempt = @ + 1]
    /\ UNCHANGED <<res_vars, queue_vars, scan_history, scan_analytics>>

\* identify_card returns its prediction, and perform_scan_with_retry returns
\* the card built from it.
identify_card_returns(m) ==
    /\ scan.pc = "identifying"
    /\ scan' = [scan EXCEPT !.pc = "logging", !.identified = @ + 1,
                            !.model_failed = m.raised,
                            !.card_data = card_of(identify_card(m)),
                            !.stages = Append(@, "identify")]
    /\ UNCHANGED <<res_vars, queue_vars, scan_history, scan_analytics>>

\* The rest of scan_endpoint (stages is the history of the request's stages
\* in the order they ended): scan_logger.log_scan(card_data, accepted=False)
\* stores nothing, ScanAnalyticsService.log_scan commits one row or raises,
\* and the response gets its user_guidance.
log_scan(outcome) ==
    /\ scan.pc = "logging"
    /\ IF outcome = "analytics_raises"
       THEN /\ scan' = [scan EXCEPT !.pc = "raised", !.log_failed = TRUE,
                                    !.status = 500,
                                    !.stages = Append(@, "write")]
            /\ UNCHANGED scan_analytics
       ELSE /\ scan' = [scan EXCEPT !.pc = "responded",
                                    !.response = scan.card_data,
                                    !.user_guidance = user_guidance(scan.card_data),
                                    !.stages = @ \o <<"write", "respond">>]
            /\ scan_analytics' = scan_analytics + 1
    /\ UNCHANGED <<res_vars, queue_vars, scan_history>>

ScanNext ==
    \/ \E content_type \in ContentTypes, size \in Sizes,
          retry_count \in RetryCounts, connection_status \in ConnectionStatus :
          scan_endpoint(content_type, size, retry_count, connection_status)
    \/ \E d \in Detections, crop_ok \in BOOLEAN : perform_scan_with_retry(d, crop_ok)
    \/ backoff_returns
    \/ \E m \in ModelOutcomes : identify_card_returns(m)
    \/ \E outcome \in LogOutcomes : log_scan(outcome)

SpecScan == ScanInit /\ [][ScanNext]_vars

\* ----------------------------------------------- offline queue: the steps
QueueInit ==
    /\ now = 0
    /\ circuit_breakers = [n \in {} |-> CircuitBreaker(0)]
    /\ cb_config = [failure_threshold |-> 1, recovery_timeout |-> MaxTimeout]
    /\ retry_config = RetryConfig(1, 1, MaxDelay, 2)
    /\ calls = [c \in {Idle} |-> NumTasks]
    /\ names = {"ml_service"}
    /\ probe = [n \in Names |-> 0]
    /\ ledger = [n \in Names |-> NoOutcomes]
    /\ scan = NoScan
    /\ scan_history = 0
    /\ scan_analytics = 0
    /\ offline_queue = <<>>
    /\ drain = NoDrain
    /\ queue_history = NoQueueHistory

\* A mutating action that cannot complete online is enqueued.
enqueue ==
    /\ queue_history.next_id <= MaxActions
    /\ offline_queue' = Enqueue(offline_queue, queue_history.next_id)
    /\ queue_history' = [queue_history EXCEPT !.next_id = @ + 1]
    /\ UNCHANGED <<res_vars, scan_vars, drain>>

\* Drain starts at the front of the queue.
drain_begins ==
    /\ ~drain.active
    /\ drain' = [NoDrain EXCEPT !.active = TRUE]
    /\ UNCHANGED <<res_vars, scan_vars, offline_queue, queue_history>>

\* replay_fn succeeds on the entry the Drain is at.
replay_succeeds ==
    /\ drain.active /\ drain.pos <= Len(offline_queue)
    /\ LET r == after_replay_success(offline_queue, drain.pos)
       IN  /\ offline_queue' = r.queue
           /\ drain' = [drain EXCEPT !.pos = r.pos,
                                     !.tried = @ \cup {offline_queue[drain.pos].id}]
    /\ UNCHANGED <<res_vars, scan_vars, queue_history>>

\* replay_fn fails on the entry the Drain is at.
replay_fails ==
    /\ drain.active /\ drain.pos <= Len(offline_queue)
    /\ LET id == offline_queue[drain.pos].id
           r  == after_replay_failure(offline_queue, drain.pos)
       IN  /\ offline_queue' = r.queue
           /\ drain' = [drain EXCEPT !.pos = r.pos, !.tried = @ \cup {id}]
           /\ queue_history' = [queue_history EXCEPT
                                   !.failed[id] = @ + 1,
                                   !.dropped = @ \cup r.dropped]
    /\ UNCHANGED <<res_vars, scan_vars>>

\* Drain has gone through the queue and returns.
drain_ends ==
    /\ drain.active /\ drain.pos > Len(offline_queue)
    /\ drain' = NoDrain
    /\ UNCHANGED <<res_vars, scan_vars, offline_queue, queue_history>>

QueueNext ==
    \/ enqueue
    \/ drain_begins
    \/ replay_succeeds
    \/ replay_fails
    \/ drain_ends

SpecQueue == QueueInit /\ [][QueueNext]_vars

\* ---------------------------------------------------------------- claims
Free == {"idle", "returned", "raised"}

Elapsed(cb) == now - cb.last_failure_time

FallbackValues(n) ==
    IF n \in fallback_handlers THEN {ml_fallback, _get_default_fallback(n)}
    ELSE {_get_default_fallback(n)}

Calls == BagToSet(calls)

\* This step is a step of the task whose call record was c and now is c2.
Step(c, c2) == c # c2 /\ calls' = Replace(c, c2)

\* C1: a call that the breaker rejects (can_execute false; in particular the
\* breaker is open and no more than recovery_timeout has passed since the
\* last failure) does not invoke the operation, leaves the breaker as it
\* was, counts no failure, and ends in the fallback: the handler's value or
\* the default record.
C1_RejectedCallIsNotCounted ==
    [][\A c \in Calls, c2 \in BagToSet(calls') :
        /\ (/\ Step(c, c2)
            /\ c.pc \in Free
            /\ c2.name \in DOMAIN circuit_breakers
            /\ LET cb == circuit_breakers[c2.name]
               IN  \/ ~can_execute(cb, now).ret
                   \/ cb.state = "open" /\ Elapsed(cb) <= cb.config.recovery_timeout)
           => /\ circuit_breakers' = circuit_breakers
              /\ c2.invoked = 0
              /\ c2.recorded = 0
              /\ \/ c2.pc = "fallback"
                 \/ /\ c2.pc = "returned"
                    /\ c2.result = _get_default_fallback(c2.name)
        /\ (Step(c, c2) /\ c.pc = "fallback")
           => /\ circuit_breakers' = circuit_breakers
              /\ c2.pc = "returned"
              /\ c2.invoked = c.invoked
              /\ c2.result \in FallbackValues(c.name)
      ]_vars

C1_Witness ==
    \E c \in Calls :
        /\ c.pc = "returned"
        /\ c.invoked = 0
        /\ c.result = ml_fallback
        /\ LET cb == circuit_breakers[c.name]
           IN  /\ cb.state = "open"
               /\ cb.failure_count = cb.config.failure_threshold
               /\ Elapsed(cb) <= cb.config.recovery_timeout

\* C2: once failure_threshold failures in a row are recorded (failure_count
\* is the length of the run: on_success and reset zero it) the breaker is not
\* closed, and while no more than recovery_timeout has passed since the last
\* of them it is open and can_execute returns false.
C2_OpenAfterThreshold ==
    \A n \in DOMAIN circuit_breakers :
        LET cb == circuit_breakers[n]
        IN  cb.failure_count >= cb.config.failure_threshold
            => /\ cb.state # "closed"
               /\ Elapsed(cb) <= cb.config.recovery_timeout
                  => /\ cb.state = "open"
                     /\ ~can_execute(cb, now).ret
                     /\ can_execute(cb, now).cb = cb

C2_Witness ==
    \E n \in DOMAIN circuit_breakers :
        LET cb == circuit_breakers[n]
        IN  /\ cb.config.failure_threshold > 1
            /\ cb.failure_count = cb.config.failure_threshold
            /\ cb.state = "open"
            /\ Elapsed(cb) = cb.config.recovery_timeout

\* C3 (as claimed): execute_with_resilience never raises to its caller,
\* whatever the operation raises.
C3_NeverRaises ==
    \A c \in Calls : c.pc # "raised"

\* C4 (as claimed): a failure recorded while the breaker is half-open leaves
\* it open, whatever the counters are.
C4_FailureInHalfOpenReopens ==
    [][\A c \in Calls, c2 \in BagToSet(calls') :
        (/\ Step(c, c2)
         /\ c.pc = "operation"
         /\ c2.recorded = c.recorded + 1
         /\ circuit_breakers[c.name].state = "half_open")
        => circuit_breakers'[c.name].state = "open"
      ]_vars

\* C5 (as claimed): one execute_with_resilience call records at most one
\* breaker failure.
C5_AtMostOneFailurePerCall ==
    \A c \in Calls : c.recorded <= 1

C7_NonRetryableStopsTheCall ==
    \A c \in Calls :
        c.other > 0
        => /\ c.pc \in Free
           /\ c.other = 1
           /\ c.invoked = c.failed + 1
           /\ c.slept = c.failed
           /\ c.failed = 0 => (c.invoked = 1 /\ c.slept = 0)

C7_Witness ==
    \E c \in Calls :
        /\ retry_config.max_attempts > 1
        /\ c.pc = "raised"
        /\ c.other = 1
        /\ c.invoked = 1
        /\ c.slept = 0

\* C8 (as claimed): a call that ends with a non-retryable error has recorded
\* a breaker failure for it.
C8_NonRetryableCountsAsFailure ==
    \A c \in Calls :
        (c.pc = "raised" /\ c.failed = 0) => c.recorded = 1

\* C9: on an open breaker can_execute returns true exactly when more than
\* recovery_timeout has passed since last_failure_time, and then leaves the
\* breaker half-open; otherwise it returns false and changes nothing.  On a
\* closed or half-open breaker it returns true and changes nothing.
C9_CanExecute ==
    \A n \in DOMAIN circuit_breakers :
        LET cb == circuit_breakers[n]
            r  == can_execute(cb, now)
        IN  /\ cb.state = "open"
               => /\ cb.last_failure_time # None
                  /\ r.ret <=> (Elapsed(cb) > cb.config.recovery_timeout)
                  /\ r.ret => r.cb = [cb EXCEPT !.state = "half_open"]
                  /\ ~r.ret => r.cb = cb
            /\ cb.state \in {"closed", "half_open"}
               => r.ret /\ r.cb = cb

C9_Witness ==
    \E n \in DOMAIN circuit_breakers :
        LET cb == circuit_breakers[n]
        IN  /\ cb.state = "half_open"
            /\ cb.failure_count >= cb.config.failure_threshold
            /\ Elapsed(cb) = cb.config.recovery_timeout + 1

\* C10: a half-open breaker has seen fewer than failure_threshold on_success
\* calls in a row since it became half-open (the one that completes the run
\* closes it), and whenever a half-open breaker becomes closed both
\* failure_count and success_count are zero.
C10_ClosesAfterThresholdSuccesses ==
    [][\A n \in DOMAIN circuit_breakers :
        LET cb  == circuit_breakers[n]
            cb2 == circuit_breakers'[n]
        IN  /\ cb2.state = "half_open" => probe'[n] < cb2.config.failure_threshold
            /\ (cb.state = "half_open" /\ cb2.state = "closed")
               => cb2.failure_count = 0 /\ cb2.success_count = 0
      ]_vars

C10_Witness ==
    \E n \in DOMAIN circuit_breakers :
        LET cb == circuit_breakers[n]
        IN  /\ cb.config.failure_threshold > 1
            /\ cb.state = "closed"
            /\ cb.last_failure_time # None
            /\ cb.failure_count = 0
            /\ cb.success_count = 0

\* ----------------------------------------------------- claims: scan route
\* The request passed the validation and its card_data is computed.
Computed == scan.pc \in {"logging", "responded", "raised"}

\* C11: a failure of the analytics write never changes or prevents the
\* response: scan_endpoint still returns the card already computed, and
\* does not raise.
C11_AnalyticsFailureKeepsResponse ==
    scan.log_failed =>
        /\ scan.pc = "responded"
        /\ scan.response = scan.card_data

\* C12: when identification failed for a validated request (the model
\* raised, or the system is offline), the card is "Unknown" with confidence
\* 0.0 and carries error_type "ml_error" or "offline_mode".
C12_FailedIdentificationIsFlagged ==
    (Computed /\ (scan.model_failed \/ scan.connection_status = "offline")) =>
        /\ scan.card_data.name = "Unknown"
        /\ scan.card_data.confidence = 0
        /\ scan.card_data.error_type \in {"ml_error", "offline_mode"}

\* C13: a failure in the detection stage (the detector raising, no region,
\* the crop raising) neither aborts the scan nor sets error_type, and
\* identify_card is still called, on the full image when there is no crop;
\* with regions, the one of highest confidence is cropped and identified.
C13_DetectionFailureIsTolerated ==
    /\ (/\ Computed
        /\ scan.connection_status # "offline"
        /\ scan.detector_failed \/ scan.no_regions \/ scan.crop_failed) =>
            /\ scan.identified >= 1
            /\ scan.model_failed \/ scan.card_data.error_type = NoKey
    /\ scan.pc = "identifying" =>
            IF scan.regions = {} THEN scan.image = "full"
            ELSE /\ scan.image = "crop"
                 /\ scan.cropped \in scan.regions
                 /\ \A r \in scan.regions : r <= scan.cropped

C15_UserGuidance ==
    scan.pc = "responded" =>
        LET e == scan.response.error_type
            c == scan.response.confidence
        IN  /\ scan.user_guidance \in {"retry_when_online", "retry_with_better_image",
                                       "suggest_retry", "add_to_collection"}
            /\ e = "offline_mode" => scan.user_guidance = "retry_when_online"
            /\ e = "ml_error" => scan.user_guidance = "retry_with_better_image"
            /\ (e = NoKey /\ c < 70) => scan.user_guidance = "suggest_retry"
            /\ (e = NoKey /\ c >= 70) => scan.user_guidance = "add_to_collection"

\* C15 witness: an identification with confidence exactly 0.7 was answered
\* with add_to_collection.
C15_Witness ==
    /\ scan.pc = "responded"
    /\ scan.response.error_type = NoKey
    /\ scan.response.confidence = 70
    /\ scan.user_guidance = "add_to_collection"

\* C16: a card with error_type carries retry_count, suggest_retry and
\* retry_delay_seconds; suggest_retry is true exactly when retry_count < 2
\* and the error is not offline_mode; the delay is 10 at retry_count 0 and
\* 20 afterwards.
C16_RetryInformation ==
    (Computed /\ scan.card_data.error_type # NoKey) =>
        LET card == scan.card_data
        IN  /\ RetryKeys \subseteq card.keys
            /\ card.suggest_retry <=>
                  (card.retry_count < 2 /\ card.error_type # "offline_mode")
            /\ card.retry_delay_seconds = IF card.retry_count = 0 THEN 10 ELSE 20

\* ------------------------------------------- claims: breaker bookkeeping
\* A recorded outcome takes a breaker from state s to state t in at most one
\* transition of CLOSED -> OPEN -> HALF_OPEN -> {CLOSED, OPEN}.
OneTransition(s, t) ==
    \/ s = t
    \/ <<s, t>> \in {<<"closed", "open">>, <<"open", "half_open">>,
                     <<"half_open", "closed">>, <<"half_open", "open">>}

\* C17: with the calls of several tasks interleaved at their awaits, the
\* counters of the shared breaker are exact: failure_count is the number of
\* failures recorded since the last success or reset, success_count the
\* number of successes recorded since the last failure, closing or reset,
\* and recording one more outcome moves the state by at most one transition.
C17_BookkeepingIsExact ==
    \A n \in DOMAIN circuit_breakers :
        LET cb == circuit_breakers[n]
        IN  /\ cb.failure_count = ledger[n].failures
            /\ cb.success_count = ledger[n].successes
            /\ OneTransition(cb.state, on_success(cb).state)
            /\ OneTransition(cb.state, on_failure(cb, now).state)

\* C17 witness: two calls are suspended in their backoff sleep at once, each
\* after one failed attempt, and the breaker has counted both failures.
C17_Witness ==
    \E n \in DOMAIN circuit_breakers, c \in Calls :
        /\ c.name = n /\ c.pc = "sleep" /\ c.recorded = 1
        /\ CopiesIn(c, calls) >= 2
        /\ circuit_breakers[n].failure_count = 2

\* C18: an open breaker has last_failure_time set, so once more than
\* recovery_timeout has passed can_execute moves it to HALF_OPEN.
C18_OpenHasFailureTime ==
    \A n \in DOMAIN circuit_breakers :
        LET cb == circuit_breakers[n]
        IN  cb.state = "open" =>
                /\ cb.last_failure_time # None
                /\ cb.last_failure_time <= now
                /\ Elapsed(cb) > cb.config.recovery_timeout =>
                      /\ can_execute(cb, now).ret
                      /\ can_execute(cb, now).cb.state = "half_open"

\* C18 witness: a breaker is open, more than recovery_timeout after its last
\* failure, and no call has probed it yet.
C18_Witness ==
    \E n \in DOMAIN circuit_breakers :
        /\ circuit_breakers[n].state = "open"
        /\ circuit_breakers[n].last_failure_time # None
        /\ Elapsed(circuit_breakers[n]) > circuit_breakers[n].config.recovery_timeout

\* ------------------------------------------------ claims: progress
IsState(n, st) == n \in DOMAIN circuit_breakers /\ circuit_breakers[n].state = st

\* C19: from OPEN, with time advancing, calls arriving and the operation
\* succeeding from now on, the breaker becomes HALF_OPEN and then CLOSED.
C19_OpenBreakerRecovers ==
    \A n \in Names :
        /\ IsState(n, "open") ~> IsState(n, "half_open")
        /\ IsState(n, "half_open") ~> IsState(n, "closed")

\* C19 witness: the breaker that was open is closed again, its counters
\* cleared by the closing.
C19_Witness ==
    \E n \in DOMAIN circuit_breakers :
        /\ circuit_breakers[n].state = "closed"
        /\ circuit_breakers[n].last_failure_time = 0
        /\ circuit_breakers[n].success_count = 0
        /\ now > circuit_breakers[n].config.recovery_timeout

\* The calls that are awaiting the operation, as call records.
OperationRecords ==
    { [Idle EXCEPT !.pc = "operation", !.name = n, !.attempt = a,
                   !.invoked = a + 1, !.slept = a, !.failed = a, !.recorded = a]
      : n \in Names, a \in 0..(MaxAttempts - 1) }

\* C20: the await of the operation is bounded by a timeout: a call that
\* is awaiting the operation leaves that await, whether or not the operation
\* ever completes.  (For each record of a call at that await: again and
\* again no call is at it, or again and again a call leaves it.)
C20_HungOperationStillReturns ==
    \A r \in OperationRecords :
        \/ []<>(~BagIn(r, calls))
        \/ []<><<CopiesIn(r, calls') < CopiesIn(r, calls)>>_vars

\* ------------------------------------------ claims: breakers of the names
\* C21: reset_circuit_breaker(name) leaves an existing breaker closed with
\* both counters 0 and last_failure_time unset, whatever its state was, so
\* that can_execute then returns true; it creates no breaker for a name
\* that has none, and it leaves the breakers of all other names as they were.
C21_ResetClosesOnlyThatBreaker ==
    \A name \in Names :
        LET cbs2 == after_reset(circuit_breakers, name)
        IN  /\ DOMAIN cbs2 = DOMAIN circuit_breakers
            /\ \A m \in DOMAIN circuit_breakers \ {name} :
                  cbs2[m] = circuit_breakers[m]
            /\ name \in DOMAIN circuit_breakers =>
                  /\ cbs2[name].state = "closed"
                  /\ cbs2[name].failure_count = 0
                  /\ cbs2[name].success_count = 0
                  /\ cbs2[name].last_failure_time = None
                  /\ cbs2[name].config = circuit_breakers[name].config
                  /\ can_execute(cbs2[name], now).ret

\* C21 witness: the breaker of one name was reset after a call had recorded
\* a failure on it, while the breaker of another name stays open.
C21_Witness ==
    \E n \in DOMAIN circuit_breakers, m \in DOMAIN circuit_breakers :
        /\ m # n
        /\ circuit_breakers[m].state = "open"
        /\ circuit_breakers[n] = CircuitBreaker(cb_config)
        /\ \E c \in Calls : c.name = n /\ c.recorded > 0 /\ c.pc \in Free

\* --------------------------------------------------- claims: offline queue
\* The ids of the entries of the queue, in queue order.
QueueIds == [i \in 1..Len(offline_queue) |-> offline_queue[i].id]

\* C22: the queue stays in the order of enqueuing, so an action whose replay
\* fails stays ahead of the later ones; a Drain replays an action only after
\* it has replayed every earlier action still queued; and an action is
\* dropped when, and only when, exactly max_retries of its replays failed.
C22_FifoReplayWithRetryCap ==
    /\ \A i, j \in 1..Len(offline_queue) :
          i < j => offline_queue[i].id < offline_queue[j].id
    /\ drain.active =>
          \A i \in 1..Len(offline_queue) :
              /\ i < drain.pos => offline_queue[i].id \in drain.tried
              /\ (\E t \in drain.tried : offline_queue[i].id < t) =>
                    offline_queue[i].id \in drain.tried
    /\ \A i \in 1..Len(offline_queue) :
          /\ offline_queue[i].retry_count = queue_history.failed[offline_queue[i].id]
          /\ offline_queue[i].retry_count < queue_max_retries
          /\ offline_queue[i].id \notin queue_history.dropped
    /\ \A id \in 1..MaxActions :
          id \in queue_history.dropped <=> queue_history.failed[id] = queue_max_retries

\* C22 witness: A, B and C were enqueued in that order; the replay of A has
\* failed max_retries - 1 times and A is still at the front, ahead of C,
\* while B was replayed and removed.
C22_Witness ==
    /\ QueueIds = <<1, 3>>
    /\ offline_queue[1].retry_count = queue_max_retries - 1
    /\ queue_history.next_id > 3

\* ------------------------------------------- claims: attempts and values
\* C23: the operation is never invoked (by the first attempt of a call or by
\* a later one) at a moment when the breaker of its name is open and no more
\* than recovery_timeout has passed since the last failure.
C23_NoInvocationWhileOpen ==
    [][\A c \in Calls, c2 \in BagToSet(calls') :
        (/\ Step(c, c2)
         /\ c.pc \in Free \cup {"sleep"}
         /\ c2.pc = "operation")
        => LET cb == circuit_breakers'[c2.name]
           IN  ~(/\ cb.state = "open"
                 /\ now - cb.last_failure_time <= cb.config.recovery_timeout)
      ]_vars

\* C24: a breaker that a completed call moves from half-open to closed has
\* seen at least failure_threshold successes since it last became half-open,
\* and success_count is 0 whenever a breaker becomes half-open.
C24_ClosesOnlyAfterThresholdProbes ==
    [][\A n \in DOMAIN circuit_breakers :
        LET cb  == circuit_breakers[n]
            cb2 == circuit_breakers'[n]
        IN  /\ (cb.state = "half_open" /\ cb2.state = "closed" /\ calls' # calls)
               => probe[n] + 1 >= cb.config.failure_threshold
            /\ (cb.state # "half_open" /\ cb2.state = "half_open")
               => cb2.success_count = 0
      ]_vars

\* C28: reading the status of a breaker leaves the breaker as it was, and
\* the report's can_execute is false exactly when its state is "open".
C28_StatusIsAnObservation ==
    \A n \in DOMAIN circuit_breakers :
        LET r == get_status(circuit_breakers[n], now)
        IN  /\ r.cb = circuit_breakers[n]
            /\ r.report.can_execute <=> r.report.state # "open"

\* C25: a call whose attempt k (counted from 1) is the first to succeed has
\* invoked the operation exactly k times, k at most max_attempts, has slept
\* only between those attempts, has recorded on_success once, has returned
\* the value of attempt k and does nothing more; with max_attempts = 1 the
\* operation was invoked once.
C25_SuccessEndsTheCall ==
    \A c \in Calls :
        /\ c.succeeded \in {0, 1}
        /\ c.succeeded = 1 =>
              /\ c.pc = "returned"
              /\ c.invoked = c.attempt + 1
              /\ c.invoked <= retry_config.max_attempts
              /\ c.failed = c.invoked - 1
              /\ c.slept = c.invoked - 1
              /\ c.other = 0
              /\ c.result = OperationResult(c.invoked - 1)
              /\ retry_config.max_attempts = 1 => c.invoked = 1

C25_Witness ==
    \E c \in Calls :
        /\ c.succeeded = 1
        /\ c.invoked = 2
        /\ c.failed = 1
        /\ c.result = OperationResult(1)

\* C26: a call that the breaker rejects, and a call whose operation fails
\* on the last attempt, goes to the fallback: it returns the value of the
\* handler registered for its name or, without a handler or when the handler
\* raises, the default record of the name (for a name containing "ml" the
\* card "Unknown Card" with confidence 0); it never ends with the error.
C26_FallbackValue ==
    [][\A c \in Calls, c2 \in BagToSet(calls') :
        LET rejected  == c.pc \in Free /\ c2.pc # "operation"
            last_fail == /\ c.pc = "operation"
                         /\ c.attempt = retry_config.max_attempts - 1
                         /\ c2.succeeded = c.succeeded
            handled   == c.pc = "fallback"
            default   == _get_default_fallback(c2.name)
        IN  Step(c, c2) =>
              /\ (rejected \/ last_fail) =>
                    IF c2.name \in fallback_handlers
                    THEN c2.pc = "fallback"
                    ELSE c2.pc = "returned" /\ c2.result = default
              /\ handled =>
                    /\ c2.pc = "returned"
                    /\ c2.result \in {ml_fallback, default}
                    /\ c2.result # NoValue
              /\ Contains("ml", c2.name) =>
                    default.name = "Unknown Card" /\ default.confidence = 0
      ]_vars

\* C27: after failed attempt k (from 0) that is not the last, the call
\* sleeps min(base_delay * backoff_factor^k, max_delay); a sleep begins only
\* there, so a call whose N attempts all failed has slept N-1 times; the
\* delays of a call never decrease and none exceeds max_delay.
C27_BackoffDelays ==
    [][\A c \in Calls, c2 \in BagToSet(calls') :
        LET cfg == retry_config
            failed_early == /\ c.pc = "operation"
                            /\ c2.failed = c.failed + 1
                            /\ c.attempt < cfg.max_attempts - 1
            exact == Min(cfg.base_delay * Power(cfg.backoff_factor, c.attempt),
                         cfg.max_delay)
        IN  Step(c, c2) =>
              /\ failed_early => c2.pc = "sleep" /\ c2.delays = Append(c.delays, exact)
              /\ c2.pc = "sleep" => failed_early
              /\ Len(c2.delays) = c2.slept
              /\ c2.failed = cfg.max_attempts => c2.slept = cfg.max_attempts - 1
              /\ \A i \in 1..Len(c2.delays) :
                    /\ c2.delays[i] <= cfg.max_delay
                    /\ i > 1 => c2.delays[i - 1] <= c2.delays[i]
      ]_vars

\* ------------------------------------------- claims: one breaker a name
\* The configurations a caller can pass to get_or_create_circuit_breaker.
Configs == [failure_threshold : 1..MaxThreshold + 1, recovery_timeout : {MaxTimeout}]

\* C30: get_or_create_circuit_breaker leaves an existing breaker as it is,
\* whatever config is passed, and for a new name adds a fresh breaker of
\* that config and touches no other; no step removes a breaker or changes
\* its config; the first call for a name creates its breaker, and a step of
\* a call changes no breaker but the one of the call's name.
C30_OneBreakerPerName ==
    [][/\ \A n \in Names, cfg \in Configs :
            LET cbs == get_or_create_circuit_breaker(circuit_breakers, n, cfg)
            IN  IF n \in DOMAIN circuit_breakers
                THEN cbs = circuit_breakers
                ELSE /\ DOMAIN cbs = DOMAIN circuit_breakers \cup {n}
                     /\ cbs[n] = CircuitBreaker(cfg)
                     /\ \A o \in DOMAIN circuit_breakers : cbs[o] = circuit_breakers[o]
       /\ DOMAIN circuit_breakers \subseteq DOMAIN circuit_breakers'
       /\ \A n \in DOMAIN circuit_breakers :
            circuit_breakers'[n].config = circuit_breakers[n].config
       /\ \A c \in Calls, c2 \in BagToSet(calls') :
            Step(c, c2) =>
              /\ c2.name \in DOMAIN circuit_breakers'
              /\ DOMAIN circuit_breakers' = DOMAIN circuit_breakers \cup {c2.name}
              /\ c2.name \notin DOMAIN circuit_breakers
                 => circuit_breakers'[c2.name].config = cb_config
              /\ \A o \in DOMAIN circuit_breakers \ {c2.name} :
                    circuit_breakers'[o] = circuit_breakers[o]
      ]_vars

\* Both names have a breaker, one of them open and the other closed with a
\* success recorded, while a call for each name is in flight.
C30_Witness ==
    /\ DOMAIN circuit_breakers = Names
    /\ \E n \in Names, o \in Names :
        /\ circuit_breakers[n].state = "open"
        /\ circuit_breakers[o].state = "closed"
        /\ circuit_breakers[o].success_count > 0
        /\ \E c \in Calls, d \in Calls :
              /\ c.name = n /\ c.pc = "sleep"
              /\ d.name = o /\ d.pc = "operation"

\* ------------------------------------------------ claims: scan stages
\* The place of a stage in the pipeline of one request.
Rank(stage) ==
    CASE stage = "validate" -> 0
      [] stage = "detect"   -> 1
      [] stage = "identify" -> 2
      [] stage = "fallback" -> 2
      [] stage = "write"    -> 3
      [] stage = "respond"  -> 4

\* How many times a stage ended in the request.
Times(stages) == Cardinality({i \in DOMAIN scan.stages : scan.stages[i] \in stages})

\* C29: in a validated request every detection ends before identification
\* (or the fallback) does, that before the analytics write, and the write
\* before the response; identification or a fallback ends once, the write is
\* made at most once, and a request that has ended has made exactly one
\* write, which stored one row when the request has answered with a card.
C29_StagesInOrder ==
    scan.status \in {200, 500} =>
        /\ \A i \in DOMAIN scan.stages, j \in DOMAIN scan.stages :
              i < j => /\ Rank(scan.stages[i]) <= Rank(scan.stages[j])
                       /\ Rank(scan.stages[j]) > 1
                          => Rank(scan.stages[i]) < Rank(scan.stages[j])
        /\ Times({"write"}) <= 1
        /\ Times({"write"}) = 1 => Times({"identify", "fallback"}) = 1
        /\ Times({"identify"}) = 1 => Times({"detect"}) >= 1
        /\ scan.pc \in {"responded", "raised"} => Times({"write"}) = 1
        /\ scan.pc = "responded" =>
              /\ Times({"respond"}) = 1
              /\ scan_analytics = scan.logs0[2] + 1
        /\ scan.pc # "responded" => scan_analytics = scan.logs0[2]

\* A request that has answered after a detection that was retried and an
\* identification, with its row stored.
C29_Witness ==
    /\ scan.pc = "responded"
    /\ scan.stages = <<"validate", "detect", "detect", "identify", "write", "respond">>
    /\ scan_analytics = scan.logs0[2] + 1

====
